---- MODULE Spec2Model ----
(***************************************************************************)
(* sonic-migrate: the migration engine of src/migration.rs.                *)
(*                                                                         *)
(* The state is the file triple {Anchor.toml, Anchor.toml.bak, Cargo.toml} *)
(* of one project directory, the position of the call in progress and its  *)
(* locals, and history variables recording what the files held when the    *)
(* call started.  A file's text is a parsed document together with its     *)
(* formatting: parsing forgets the formatting and to_string_pretty always  *)
(* produces the canonical one, so byte-identity and document equality are  *)
(* different relations.                                                    *)
(*                                                                         *)
(* Spec is the behaviour of the program when every file operation          *)
(* succeeds (fs::copy, fs::read_to_string, fs::write, fs::remove_file).    *)
(***************************************************************************)
EXTENDS Naturals, FiniteSets, Sequences, TLC

----------------------------------------------------------------------------
(* toml::Value, restricted to the keys the engine looks at plus one        *)
(* section and one key it does not know.                                   *)

\* a value below a section: type is "string", "integer" or "table"
Leaf(t, s) == [type |-> t, v |-> s]

EmptyTable == [k \in {} |-> Leaf("string", "")]

\* toml::Value::Table at section level
TableSection(entries) == [type |-> "table", scalar |-> "", entries |-> entries]

\* a top-level key bound to a string instead of a table
ScalarSection(s) == [type |-> "string", scalar |-> s, entries |-> EmptyTable]

\* toml::map::Map::insert / remove
Insert(t, k, val) == [x \in (DOMAIN t) \cup {k} |-> IF x = k THEN val ELSE t[x]]

Remove(t, k) == [x \in (DOMAIN t) \ {k} |-> t[x]]

EmptyDoc == [k \in {} |-> ScalarSection("")]

----------------------------------------------------------------------------
(* cli.rs: Network and Config                                              *)

Network == {"TestNet", "MainnetAlpha"}

\* Option<Network>
OptNetwork == Network \cup {"None"}

TestnetUrl == "https://api.testnet.sonic.game"

MainnetUrl == "https://api.mainnet-alpha.sonic.game"

get_network_rpc_url(network) ==
    IF network = "TestNet" THEN TestnetUrl ELSE MainnetUrl

\* variant: only a cluster named Localnet is mapped to the endpoint
map_cluster_only_localnet(cluster, network) ==
    IF cluster = "Localnet"
    THEN get_network_rpc_url(IF network = "None" THEN "TestNet" ELSE network)
    ELSE cluster

\* network.unwrap_or(Network::TestNet), then the URL; the old cluster is ignored
map_cluster_to_soon(cluster, network) ==
    get_network_rpc_url(IF network = "None" THEN "TestNet" ELSE network)

get_programs_section_name(network) ==
    IF network = "TestNet" THEN "testnet" ELSE "mainnet"

\* variant: the section name defaults to mainnet when no network is given
programs_section_name_default_mainnet(network) ==
    IF network = "None" THEN "mainnet" ELSE get_programs_section_name(network)

\* config.network.map_or("testnet", get_programs_section_name)
programs_section_name(network) ==
    IF network = "None" THEN "testnet" ELSE get_programs_section_name(network)

----------------------------------------------------------------------------
(* The two rewrites of run_migration                                       *)

\* variant: the cluster is written into every provider table
ClusterRewriteInsertsMissing(doc, network) ==
    IF "provider" \in DOMAIN doc /\ doc["provider"].type = "table"
    THEN [doc EXCEPT !["provider"] = TableSection(
             Insert(doc["provider"].entries, "cluster",
                    Leaf("string", map_cluster_to_soon("", network))))]
    ELSE doc

\* migration.rs 82-99
ClusterRewrite(doc, network) ==
    IF "provider" \in DOMAIN doc /\ doc["provider"].type = "table"
    THEN LET table == doc["provider"].entries
         IN  IF "cluster" \in DOMAIN table /\ table["cluster"].type = "string"
             THEN [doc EXCEPT !["provider"] = TableSection(
                      Insert(table, "cluster",
                             Leaf("string", map_cluster_to_soon(table["cluster"].v, network))))]
             ELSE doc
    ELSE doc

\* variant: the localnet entry is copied to the target key and not removed
ProgramsCopy(doc, network) ==
    IF "programs" \in DOMAIN doc /\ doc["programs"].type = "table"
    THEN LET table == doc["programs"].entries
         IN  IF "localnet" \in DOMAIN table
             THEN [doc EXCEPT !["programs"] = TableSection(
                      Insert(table, programs_section_name(network), table["localnet"]))]
             ELSE doc
    ELSE doc

\* variant: the target key is derived from the cluster found in the document
ProgramsRelocateByCluster(doc, network) ==
    IF "programs" \in DOMAIN doc /\ doc["programs"].type = "table"
    THEN LET table == doc["programs"].entries
             name  == IF /\ "provider" \in DOMAIN doc
                         /\ doc["provider"].type = "table"
                         /\ "cluster" \in DOMAIN doc["provider"].entries
                         /\ doc["provider"].entries["cluster"].v = MainnetUrl
                      THEN "mainnet" ELSE "testnet"
         IN  IF "localnet" \in DOMAIN table
             THEN [doc EXCEPT !["programs"] = TableSection(
                      Insert(Remove(table, "localnet"), name, table["localnet"]))]
             ELSE doc
    ELSE doc

\* variant: the target key is written even when there is no localnet entry
ProgramsRelocateUnconditional(doc, network) ==
    IF "programs" \in DOMAIN doc /\ doc["programs"].type = "table"
    THEN LET table == doc["programs"].entries
         IN  [doc EXCEPT !["programs"] = TableSection(
                 Insert(Remove(table, "localnet"), programs_section_name(network),
                        IF "localnet" \in DOMAIN table THEN table["localnet"]
                        ELSE Leaf("table", "")))]
    ELSE doc

\* variant: without a localnet entry, the other network's entry is relocated
ProgramsRelocateAnySource(doc, network) ==
    IF "programs" \in DOMAIN doc /\ doc["programs"].type = "table"
    THEN LET table  == doc["programs"].entries
             target == programs_section_name(network)
             other  == IF target = "testnet" THEN "mainnet" ELSE "testnet"
             source == IF "localnet" \in DOMAIN table THEN "localnet" ELSE other
         IN  IF source \in DOMAIN table
             THEN [doc EXCEPT !["programs"] = TableSection(
                      Insert(Remove(table, source), target, table[source]))]
             ELSE doc
    ELSE doc

\* migration.rs 101-114
ProgramsRelocate(doc, network) ==
    IF "programs" \in DOMAIN doc /\ doc["programs"].type = "table"
    THEN LET table == doc["programs"].entries
         IN  IF "localnet" \in DOMAIN table
             THEN [doc EXCEPT !["programs"] = TableSection(
                      Insert(Remove(table, "localnet"),
                             programs_section_name(network), table["localnet"]))]
             ELSE doc
    ELSE doc

Transform(doc, network) == ProgramsRelocate(ClusterRewrite(doc, network), network)

----------------------------------------------------------------------------
(* Files and texts                                                         *)

\* the text of a file: valid TOML carries its document and its formatting
Text(doc, fmt) == [valid |-> TRUE, doc |-> doc, fmt |-> fmt]

\* a text the TOML parser rejects
BadText == [valid |-> FALSE, doc |-> EmptyDoc, fmt |-> "orig"]

NoText == [valid |-> FALSE, doc |-> EmptyDoc, fmt |-> "none"]

File(text) == [exists |-> TRUE, text |-> text]

Absent == [exists |-> FALSE, text |-> NoText]

\* content.parse::<toml::Value>() on a valid text
Parse(text) == text.doc

\* toml::to_string_pretty
to_string_pretty(doc) == Text(doc, "pretty")

----------------------------------------------------------------------------
(* Starting documents                                                      *)

Wallet == Leaf("string", "~/.config/solana/id.json")

\* the [provider] section as a user may have written it
ProviderSections ==
    { TableSection([k \in {"cluster", "wallet"} |->
                       IF k = "cluster" THEN Leaf("string", "Localnet") ELSE Wallet]),
      TableSection([k \in {"cluster", "wallet"} |->
                       IF k = "cluster" THEN Leaf("integer", "8899") ELSE Wallet]),
      TableSection([k \in {"wallet"} |-> Wallet]),
      ScalarSection("Localnet") }

\* the sub-table found under programs.<key> in a starting document
ProgramIds(k) ==
    Leaf("table", CASE k = "localnet" -> "migration = EtQd"
                    [] k = "testnet"  -> "migration = Test"
                    [] OTHER          -> "migration = Main")

ProgramsKeys == {"localnet", "testnet", "mainnet"}

ProgramsSections ==
    { TableSection([k \in ks |-> ProgramIds(k)]) : ks \in SUBSET ProgramsKeys }
        \cup { ScalarSection("none") }

\* a section the engine knows nothing about
ScriptsSection == TableSection([k \in {"test"} |-> Leaf("string", "yarn run ts-mocha")])

\* an optional section is <<>> or <<section>>
Opt(S) == { <<>> } \cup { <<x>> : x \in S }

MkDoc(p, g) ==
    [k \in {"scripts"} \cup (IF p # <<>> THEN {"provider"} ELSE {})
                       \cup (IF g # <<>> THEN {"programs"} ELSE {}) |->
        CASE k = "provider" -> p[1]
          [] k = "programs" -> g[1]
          [] OTHER          -> ScriptsSection]

StartDocs == { MkDoc(p, g) : p \in Opt(ProviderSections), g \in Opt(ProgramsSections) }

\* what Anchor.toml may hold before the first call
StartTexts == { Text(d, "orig") : d \in StartDocs } \cup { BadText }

\* a backup left behind by a run that happened before the first call
StaleBackup == File(Text(MkDoc(<<ScalarSection("Devnet")>>, <<>>), "orig"))

----------------------------------------------------------------------------
(* State                                                                   *)

VARIABLES
    anchor,      \* <path>/Anchor.toml
    bak,         \* <path>/Anchor.toml.bak
    cargo,       \* <path>/Cargo.toml exists
    pc,          \* position of the call in progress
    config,      \* the Config of the call: restore, dry_run, network
    content,     \* run_migration's local `content`
    toml_value,  \* run_migration's local `toml_value`
    result,      \* what the call returned
    printed,     \* the document text printed by a dry run
    pre,         \* history: the files when the call started
    prev,        \* history: the previous call, its result and its `pre`
    attempt      \* history: Anchor.toml at the start of the most recent
                 \* migration that passed validation

vars == <<anchor, bak, cargo, pc, config, content, toml_value, result,
          printed, pre, prev, attempt>>

NoConfig == [restore |-> FALSE, dry_run |-> FALSE, network |-> "None"]

Snapshot == [anchor |-> anchor, bak |-> bak, cargo |-> cargo]

NoCall == [called |-> FALSE, config |-> NoConfig, result |-> "none",
           pre |-> [anchor |-> Absent, bak |-> Absent, cargo |-> FALSE]]

Init ==
    /\ anchor \in { File(t) : t \in StartTexts } \cup { Absent }
    /\ bak \in { Absent, StaleBackup }
    /\ cargo \in BOOLEAN
    /\ pc = "Idle"
    /\ config = NoConfig
    /\ content = NoText
    /\ toml_value = EmptyDoc
    /\ result = "none"
    /\ printed = NoText
    /\ pre = [anchor |-> anchor, bak |-> bak, cargo |-> cargo]
    /\ prev = NoCall
    /\ attempt = bak

----------------------------------------------------------------------------
(* main.rs: one invocation of the tool                                     *)

Returned == pc \in {"Idle", "Done"}

\* main.rs 12-56: Config::new(), then restore_backup or run_migration
Main(restore, dry_run, network) ==
    /\ Returned
    /\ config' = [restore |-> restore, dry_run |-> dry_run, network |-> network]
    /\ pc' = IF restore THEN "RestoreCheck" ELSE "Validate"
    /\ pre' = Snapshot
    /\ prev' = IF pc = "Done"
               THEN [called |-> TRUE, config |-> config, result |-> result, pre |-> pre]
               ELSE NoCall
    /\ content' = NoText
    /\ toml_value' = EmptyDoc
    /\ result' = "none"
    /\ printed' = NoText
    /\ UNCHANGED <<anchor, bak, cargo, attempt>>

Return(r) ==
    /\ result' = r
    /\ pc' = "Done"

----------------------------------------------------------------------------
(* migration.rs: run_migration, step by step                               *)

\* variant: only Anchor.toml is looked for
validate_only_anchor_toml(anchor_toml, cargo_toml) == anchor_toml.exists

\* migration.rs 169-181: both Anchor.toml and Cargo.toml exist
validate_anchor_project(anchor_toml, cargo_toml) == anchor_toml.exists /\ cargo_toml

\* migration.rs 60
Validate ==
    /\ pc = "Validate"
    /\ IF validate_anchor_project(anchor, cargo)
       THEN /\ pc' = "Backup"
            /\ attempt' = pre.anchor
            /\ UNCHANGED result
       ELSE /\ Return("NotAnAnchorProject")
            /\ UNCHANGED attempt
    /\ UNCHANGED <<anchor, bak, cargo, config, content, toml_value, printed, pre, prev>>

\* variant: a dry run takes no backup
BackupSkippedInDryRun ==
    /\ pc = "Backup"
    /\ bak' = IF config.dry_run THEN bak ELSE File(anchor.text)
    /\ pc' = "Read"
    /\ UNCHANGED <<anchor, cargo, config, content, toml_value, result, printed,
                   pre, prev, attempt>>

\* variant: an existing backup is kept instead of overwritten
BackupKeepsExisting ==
    /\ pc = "Backup"
    /\ bak' = IF bak.exists THEN bak ELSE File(anchor.text)
    /\ pc' = "Read"
    /\ UNCHANGED <<anchor, cargo, config, content, toml_value, result, printed,
                   pre, prev, attempt>>

\* migration.rs 62-67: fs::copy(Anchor.toml, Anchor.toml.bak)
Backup ==
    /\ pc = "Backup"
    /\ bak' = File(anchor.text)
    /\ pc' = "Read"
    /\ UNCHANGED <<anchor, cargo, config, content, toml_value, result, printed,
                   pre, prev, attempt>>

\* migration.rs 74-75: fs::read_to_string
Read ==
    /\ pc = "Read"
    /\ content' = anchor.text
    /\ pc' = "Parse"
    /\ UNCHANGED <<anchor, bak, cargo, config, toml_value, result, printed,
                   pre, prev, attempt>>

\* variant: a parse error is swallowed and the pipeline goes on with the default value
ParseStepContinues ==
    /\ pc = "Parse"
    /\ toml_value' = Parse(content)
    /\ pc' = "Transform"
    /\ UNCHANGED <<anchor, bak, cargo, config, content, result, printed,
                   pre, prev, attempt>>

\* variant: a parse error removes the backup this run wrote
ParseStepCleansUp ==
    /\ pc = "Parse"
    /\ IF content.valid
       THEN /\ toml_value' = Parse(content)
            /\ pc' = "Transform"
            /\ UNCHANGED <<result, bak>>
       ELSE /\ Return("TomlParseError")
            /\ bak' = Absent
            /\ UNCHANGED toml_value
    /\ UNCHANGED <<anchor, cargo, config, content, printed, pre, prev, attempt>>

\* migration.rs 78-80
ParseStep ==
    /\ pc = "Parse"
    /\ IF content.valid
       THEN /\ toml_value' = Parse(content)
            /\ pc' = "Transform"
            /\ UNCHANGED result
       ELSE /\ Return("TomlParseError")
            /\ UNCHANGED toml_value
    /\ UNCHANGED <<anchor, bak, cargo, config, content, printed, pre, prev, attempt>>

\* migration.rs 82-114
TransformStep ==
    /\ pc = "Transform"
    /\ toml_value' = Transform(toml_value, config.network)
    /\ pc' = IF config.dry_run THEN "Preview" ELSE "Persist"
    /\ UNCHANGED <<anchor, bak, cargo, config, content, result, printed,
                   pre, prev, attempt>>

\* migration.rs 121-130: serialize and fs::write
Persist ==
    /\ pc = "Persist"
    /\ anchor' = File(to_string_pretty(toml_value))
    /\ Return("Ok")
    /\ UNCHANGED <<bak, cargo, config, content, toml_value, printed, pre, prev, attempt>>

\* variant: the dry run writes the file as well
PreviewWritesFile ==
    /\ pc = "Preview"
    /\ printed' = to_string_pretty(toml_value)
    /\ anchor' = File(to_string_pretty(toml_value))
    /\ Return("Ok")
    /\ UNCHANGED <<bak, cargo, config, content, toml_value, pre, prev, attempt>>

\* migration.rs 131-139: serialize and print
Preview ==
    /\ pc = "Preview"
    /\ printed' = to_string_pretty(toml_value)
    /\ Return("Ok")
    /\ UNCHANGED <<anchor, bak, cargo, config, content, toml_value, pre, prev, attempt>>

----------------------------------------------------------------------------
(* migration.rs: restore_backup, step by step                              *)

\* variant: restore validates the project like a migration does
RestoreCheckValidates ==
    /\ pc = "RestoreCheck"
    /\ IF ~validate_anchor_project(anchor, cargo)
       THEN Return("NotAnAnchorProject")
       ELSE IF bak.exists
            THEN pc' = "RestoreCopy" /\ UNCHANGED result
            ELSE Return("BackupNotFound")
    /\ UNCHANGED <<anchor, bak, cargo, config, content, toml_value, printed,
                   pre, prev, attempt>>

\* variant: the existence of the backup is not checked
RestoreCheckSkipped ==
    /\ pc = "RestoreCheck"
    /\ pc' = "RestoreCopy"
    /\ UNCHANGED <<anchor, bak, cargo, config, content, toml_value, result, printed,
                   pre, prev, attempt>>

\* migration.rs 150-154
RestoreCheck ==
    /\ pc = "RestoreCheck"
    /\ IF bak.exists
       THEN pc' = "RestoreCopy" /\ UNCHANGED result
       ELSE Return("BackupNotFound")
    /\ UNCHANGED <<anchor, bak, cargo, config, content, toml_value, printed,
                   pre, prev, attempt>>

\* variant: the copy goes from Anchor.toml to the backup
RestoreCopySwapped ==
    /\ pc = "RestoreCopy"
    /\ bak' = File(anchor.text)
    /\ pc' = "RestoreRemove"
    /\ UNCHANGED <<anchor, cargo, config, content, toml_value, result, printed,
                   pre, prev, attempt>>

\* migration.rs 156-157: fs::copy(Anchor.toml.bak, Anchor.toml)
RestoreCopy ==
    /\ pc = "RestoreCopy"
    /\ anchor' = File(bak.text)
    /\ pc' = "RestoreRemove"
    /\ UNCHANGED <<bak, cargo, config, content, toml_value, result, printed,
                   pre, prev, attempt>>

\* migration.rs 159-164: fs::remove_file(Anchor.toml.bak)
RestoreRemove ==
    /\ pc = "RestoreRemove"
    /\ bak' = IF bak.exists THEN Absent ELSE bak
    /\ Return("Ok")
    /\ UNCHANGED <<anchor, cargo, config, content, toml_value, printed,
                   pre, prev, attempt>>

----------------------------------------------------------------------------

RunMigrationCall == \E dry_run \in BOOLEAN, network \in OptNetwork : Main(FALSE, dry_run, network)

RestoreCall == Main(TRUE, FALSE, "None")

Next ==
    \/ RunMigrationCall
    \/ RestoreCall
    \/ Validate
    \/ Backup
    \/ Read
    \/ ParseStep
    \/ TransformStep
    \/ Persist
    \/ Preview
    \/ RestoreCheck
    \/ RestoreCopy
    \/ RestoreRemove

Spec == Init /\ [][Next]_vars

----------------------------------------------------------------------------
(* The calls as functions of the files they start from                     *)

Outcome(a, b, r, p) == [anchor |-> a, bak |-> b, result |-> r, printed |-> p]

\* migration.rs 59-142: what run_migration leaves behind and returns
run_migration(fs, cfg) ==
    IF ~validate_anchor_project(fs.anchor, fs.cargo)
    THEN Outcome(fs.anchor, fs.bak, "NotAnAnchorProject", NoText)
    ELSE LET backup == File(fs.anchor.text)
             text   == fs.anchor.text
         IN  IF ~text.valid
             THEN Outcome(fs.anchor, backup, "TomlParseError", NoText)
             ELSE LET value == Transform(Parse(text), cfg.network)
                  IN  IF cfg.dry_run
                      THEN Outcome(fs.anchor, backup, "Ok", to_string_pretty(value))
                      ELSE Outcome(File(to_string_pretty(value)), backup, "Ok", NoText)

\* migration.rs 146-165: what restore_backup leaves behind and returns
restore_backup(fs) ==
    IF ~fs.bak.exists
    THEN Outcome(fs.anchor, fs.bak, "BackupNotFound", NoText)
    ELSE Outcome(File(fs.bak.text), Absent, "Ok", NoText)

----------------------------------------------------------------------------
(* Vocabulary of the properties                                            *)

MigrationDone == pc = "Done" /\ ~config.restore

RestoreDone == pc = "Done" /\ config.restore

InMigration == pc \notin {"Idle", "Done"} /\ ~config.restore

\* the project the call started from is valid and its Anchor.toml parses
ValidStart == pre.anchor.exists /\ pre.cargo /\ pre.anchor.text.valid

\* the document Anchor.toml held when the call started
DocBefore == pre.anchor.text.doc

\* the document run_migration produced: written, or printed by a dry run
DocAfter == IF config.dry_run THEN printed.doc ELSE anchor.text.doc

HasTable(doc, section) == section \in DOMAIN doc /\ doc[section].type = "table"

HasKey(doc, section, key) == HasTable(doc, section) /\ key \in DOMAIN doc[section].entries

HasStringCluster(doc) ==
    HasKey(doc, "provider", "cluster") /\ doc["provider"].entries["cluster"].type = "string"

HasLocalnet(doc) == HasKey(doc, "programs", "localnet")

\* the network a call targets: unset means TestNet
Target == IF config.network = "MainnetAlpha" THEN "MainnetAlpha" ELSE "TestNet"

TargetUrl == IF Target = "MainnetAlpha" THEN MainnetUrl ELSE TestnetUrl

TargetSection == IF Target = "MainnetAlpha" THEN "mainnet" ELSE "testnet"

\* the stepwise call and the function agree (sanity of the two renderings)
StepsMatchFunction ==
    /\ MigrationDone =>
          Outcome(anchor, bak, result, printed) = run_migration(pre, config)
    /\ RestoreDone =>
          Outcome(anchor, bak, result, printed) = restore_backup(pre)

----------------------------------------------------------------------------
(* C1: a dry run of run_migration on a valid project whose Anchor.toml     *)
(* parses returns Ok, whatever the network, and Anchor.toml is             *)
(* byte-identical to what it was before the call, at every step of the     *)
(* call and after it.                                                      *)
DryRunLeavesAnchorToml ==
    /\ (MigrationDone /\ config.dry_run /\ ValidStart) =>
          (result = "Ok" /\ anchor = pre.anchor)
    /\ ((InMigration \/ MigrationDone) /\ config.dry_run) => anchor = pre.anchor

\* a dry run returned Ok after computing a document that differs from the file's
DryRunWitness ==
    /\ MigrationDone /\ config.dry_run /\ ValidStart /\ result = "Ok"
    /\ config.network = "MainnetAlpha"
    /\ printed.valid /\ printed.doc # DocBefore

(* C2: a successful run_migration immediately followed by restore_backup:  *)
(* the restore returns Ok, Anchor.toml is byte-identical to the document   *)
(* the migration started from, and Anchor.toml.bak is gone.                *)
MigrateThenRestore ==
    (RestoreDone /\ prev.called /\ ~prev.config.restore /\ prev.result = "Ok") =>
        /\ result = "Ok"
        /\ anchor = prev.pre.anchor
        /\ ~bak.exists

\* the restore undid a migration that had rewritten the file
MigrateThenRestoreWitness ==
    /\ RestoreDone /\ prev.called /\ ~prev.config.restore /\ prev.result = "Ok"
    /\ ~prev.config.dry_run
    /\ pre.anchor # prev.pre.anchor
    /\ pre.anchor.text.doc # prev.pre.anchor.text.doc
    /\ anchor = prev.pre.anchor

(* C3: between calls the single backup slot, when it holds a file, holds a *)
(* byte copy of what Anchor.toml held at the start of the most recent      *)
(* migration attempt that passed validation (dry runs included); after     *)
(* every successful run_migration the backup exists.                       *)
BackupIsLatestStart ==
    /\ (Returned /\ bak.exists) => bak = attempt
    /\ (MigrationDone /\ result = "Ok") => bak.exists

\* a second migration overwrote the backup of the first with the migrated file
BackupWitness ==
    /\ MigrationDone /\ result = "Ok"
    /\ prev.called /\ ~prev.config.restore /\ prev.result = "Ok" /\ ~prev.config.dry_run
    /\ pre.bak.exists /\ bak # pre.bak
    /\ bak = pre.anchor

(* C4: after a successful non-dry-run migration of a document whose        *)
(* provider table has a string cluster, whatever the string, the cluster   *)
(* is the testnet endpoint for TestNet or no network and the mainnet-alpha *)
(* endpoint for MainnetAlpha.                                              *)
ClusterRewritten ==
    (MigrationDone /\ result = "Ok" /\ ~config.dry_run /\ HasStringCluster(DocBefore)) =>
        /\ HasKey(anchor.text.doc, "provider", "cluster")
        /\ anchor.text.doc["provider"].entries["cluster"] =
              Leaf("string", IF config.network = "MainnetAlpha"
                             THEN "https://api.mainnet-alpha.sonic.game"
                             ELSE "https://api.testnet.sonic.game")

\* a cluster that was not "Localnet" was rewritten to the other network's endpoint
ClusterRewrittenWitness ==
    /\ MigrationDone /\ result = "Ok" /\ ~config.dry_run /\ HasStringCluster(DocBefore)
    /\ DocBefore["provider"].entries["cluster"].v = "https://api.testnet.sonic.game"
    /\ config.network = "MainnetAlpha"
    /\ anchor.text.doc["provider"].entries["cluster"].v = "https://api.mainnet-alpha.sonic.game"

(* C5: after a successful non-dry-run migration of a document whose        *)
(* programs table has a localnet entry V, programs has no localnet key and *)
(* holds V under mainnet for MainnetAlpha, under testnet for TestNet or no *)
(* network.                                                                *)
LocalnetRelocated ==
    (MigrationDone /\ result = "Ok" /\ ~config.dry_run /\ HasLocalnet(DocBefore)) =>
        LET V      == DocBefore["programs"].entries["localnet"]
            target == IF config.network = "MainnetAlpha" THEN "mainnet" ELSE "testnet"
        IN  /\ HasTable(anchor.text.doc, "programs")
            /\ ~HasKey(anchor.text.doc, "programs", "localnet")
            /\ HasKey(anchor.text.doc, "programs", target)
            /\ anchor.text.doc["programs"].entries[target] = V

\* localnet was moved under mainnet, next to an untouched testnet entry
LocalnetRelocatedWitness ==
    /\ MigrationDone /\ result = "Ok" /\ ~config.dry_run /\ HasLocalnet(DocBefore)
    /\ config.network = "MainnetAlpha"
    /\ HasKey(DocBefore, "programs", "testnet")
    /\ ~HasKey(DocBefore, "programs", "mainnet")
    /\ anchor.text.doc["programs"].entries["mainnet"] = DocBefore["programs"].entries["localnet"]

(* C6: when the directory lacks Anchor.toml or Cargo.toml, run_migration   *)
(* (dry run or not) returns NotAnAnchorProject and touches no file: the    *)
(* backup is neither created nor overwritten and Anchor.toml is unchanged, *)
(* at every step of the call and after it.                                 *)
InvalidProjectRejected ==
    /\ (MigrationDone /\ ~(pre.anchor.exists /\ pre.cargo)) =>
          (result = "NotAnAnchorProject" /\ Snapshot = pre)
    /\ (InMigration /\ ~(pre.anchor.exists /\ pre.cargo)) =>
          (pc = "Validate" /\ Snapshot = pre)

\* Anchor.toml is there, Cargo.toml is not, and an older backup was left alone
InvalidProjectWitness ==
    /\ MigrationDone /\ result = "NotAnAnchorProject"
    /\ pre.anchor.exists /\ ~pre.cargo
    /\ pre.bak.exists /\ pre.bak # pre.anchor
    /\ Snapshot = pre

(* C7: restore_backup without an Anchor.toml.bak returns BackupNotFound    *)
(* and leaves Anchor.toml, present or absent, exactly as it was.           *)
RestoreWithoutBackup ==
    (RestoreDone /\ ~pre.bak.exists) =>
        (result = "BackupNotFound" /\ anchor = pre.anchor /\ bak = pre.bak)

\* the restore failed on a project whose Anchor.toml exists
RestoreWithoutBackupWitness ==
    /\ RestoreDone /\ ~pre.bak.exists /\ result = "BackupNotFound"
    /\ pre.anchor.exists /\ anchor = pre.anchor

\* every key of section `name` other than `except` keeps its value from d0 to d1
SectionKept(d0, d1, name, except) ==
    name \in DOMAIN d0 =>
        /\ name \in DOMAIN d1
        /\ d1[name].type = d0[name].type
        /\ d1[name].scalar = d0[name].scalar
        /\ \A k \in (DOMAIN d0[name].entries) \ {except} :
              /\ k \in DOMAIN d1[name].entries
              /\ d1[name].entries[k] = d0[name].entries[k]

(* C8: after a successful non-dry-run migration every section and key      *)
(* other than provider.cluster and programs.localnet has the value it had  *)
(* before: unknown top-level sections, the other keys of provider, the     *)
(* other entries of programs (a pre-existing testnet or mainnet included). *)
OtherKeysUnchanged ==
    (MigrationDone /\ result = "Ok" /\ ~config.dry_run) =>
        /\ \A name \in (DOMAIN DocBefore) \ {"provider", "programs"} :
              SectionKept(DocBefore, anchor.text.doc, name, "")
        /\ SectionKept(DocBefore, anchor.text.doc, "provider", "cluster")
        /\ SectionKept(DocBefore, anchor.text.doc, "programs", "localnet")

(* C9: a document lacking the shape a rewrite expects (no provider, no     *)
(* string cluster, no programs, no programs.localnet) still migrates with  *)
(* Ok; the rewrite whose shape is missing changes nothing, so absent       *)
(* structures stay absent and a non-string cluster keeps its value, while  *)
(* the other rewrite is applied.                                           *)
MissingShapeIsNoOp ==
    (MigrationDone /\ ValidStart) =>
        /\ result = "Ok"
        /\ ~HasStringCluster(DocBefore) =>
              /\ ("provider" \in DOMAIN DocAfter) = ("provider" \in DOMAIN DocBefore)
              /\ "provider" \in DOMAIN DocBefore =>
                    DocAfter["provider"] = DocBefore["provider"]
              /\ HasLocalnet(DocBefore) =>
                    /\ ~HasKey(DocAfter, "programs", "localnet")
                    /\ HasKey(DocAfter, "programs", TargetSection)
                    /\ DocAfter["programs"].entries[TargetSection] =
                          DocBefore["programs"].entries["localnet"]
        /\ ~HasLocalnet(DocBefore) =>
              /\ ("programs" \in DOMAIN DocAfter) = ("programs" \in DOMAIN DocBefore)
              /\ "programs" \in DOMAIN DocBefore =>
                    DocAfter["programs"] = DocBefore["programs"]
              /\ HasStringCluster(DocBefore) =>
                    DocAfter["provider"].entries["cluster"] = Leaf("string", TargetUrl)

\* a provider table without cluster stayed without it while localnet was relocated
MissingShapeWitness ==
    /\ MigrationDone /\ ValidStart /\ result = "Ok" /\ ~config.dry_run
    /\ HasTable(DocBefore, "provider") /\ ~HasKey(DocBefore, "provider", "cluster")
    /\ ~HasKey(DocAfter, "provider", "cluster")
    /\ HasLocalnet(DocBefore) /\ ~HasLocalnet(DocAfter)

(* C10: run_migration with no network behaves exactly as with TestNet      *)
(* (same result, same Anchor.toml, same backup, same preview) for every    *)
(* start and both values of dry_run; and in every successful migration the *)
(* endpoint written to provider.cluster and the section the localnet entry *)
(* moved to belong to one network.                                         *)
UnsetNetworkIsTestNet ==
    /\ (MigrationDone /\ config.network = "None") =>
          Outcome(anchor, bak, result, printed) =
              run_migration(pre, [config EXCEPT !.network = "TestNet"])
    /\ (MigrationDone /\ result = "Ok"
            /\ HasStringCluster(DocBefore) /\ HasLocalnet(DocBefore)) =>
          \E n \in Network :
              /\ DocAfter["provider"].entries["cluster"].v = get_network_rpc_url(n)
              /\ HasKey(DocAfter, "programs", get_programs_section_name(n))
              /\ DocAfter["programs"].entries[get_programs_section_name(n)] =
                    DocBefore["programs"].entries["localnet"]

\* a migration without a network applied both rewrites and wrote the file
UnsetNetworkWitness ==
    /\ MigrationDone /\ config.network = "None" /\ result = "Ok" /\ ~config.dry_run
    /\ HasStringCluster(DocBefore) /\ HasLocalnet(DocBefore)
    /\ anchor # pre.anchor
    /\ anchor.text.doc["provider"].entries["cluster"].v = TestnetUrl
    /\ HasKey(anchor.text.doc, "programs", "testnet")

----------------------------------------------------------------------------
(* File operations that fail                                               *)
(*                                                                         *)
(* fs::copy and fs::write open the destination, truncate it and then write *)
(* into it.  A failure leaves the destination as it was (the open failed), *)
(* empty (the first write failed) or holding a prefix of the data.  An     *)
(* empty file is valid TOML: the empty document.                           *)

\* a prefix of a text, cut where the TOML parser rejects it
PartialText == [valid |-> FALSE, doc |-> EmptyDoc, fmt |-> "partial"]

\* a file truncated to length 0
EmptyText == Text(EmptyDoc, "empty")

\* what a failed fs::copy or fs::write may leave at its destination
FailedWrite(dest) == { dest, File(EmptyText), File(PartialText) }

\* migration.rs 66-67: fs::copy fails, BackupFailed
BackupFails ==
    /\ pc = "Backup"
    /\ bak' \in FailedWrite(bak)
    /\ Return("BackupFailed")
    /\ UNCHANGED <<anchor, cargo, config, content, toml_value, printed,
                   pre, prev, attempt>>

\* migration.rs 74-75: fs::read_to_string fails, ReadFailed
ReadFails ==
    /\ pc = "Read"
    /\ Return("ReadFailed")
    /\ UNCHANGED <<anchor, bak, cargo, config, content, toml_value, printed,
                   pre, prev, attempt>>

\* migration.rs 122-123 and 135-136: toml::to_string_pretty fails, TomlParseError
SerializeFails ==
    /\ pc \in {"Persist", "Preview"}
    /\ Return("TomlParseError")
    /\ UNCHANGED <<anchor, bak, cargo, config, content, toml_value, printed,
                   pre, prev, attempt>>

\* variant: a failed write removes the backup before returning
WriteFailsCleansUp ==
    /\ pc = "Persist"
    /\ anchor' \in FailedWrite(anchor)
    /\ bak' = Absent
    /\ Return("WriteFailed")
    /\ UNCHANGED <<cargo, config, content, toml_value, printed, pre, prev, attempt>>

\* migration.rs 125-126: fs::write fails, WriteFailed
WriteFails ==
    /\ pc = "Persist"
    /\ anchor' \in FailedWrite(anchor)
    /\ Return("WriteFailed")
    /\ UNCHANGED <<bak, cargo, config, content, toml_value, printed,
                   pre, prev, attempt>>

\* migration.rs 156-157: fs::copy fails, RestoreFailed
RestoreCopyFails ==
    /\ pc = "RestoreCopy"
    /\ anchor' \in FailedWrite(anchor)
    /\ Return("RestoreFailed")
    /\ UNCHANGED <<bak, cargo, config, content, toml_value, printed,
                   pre, prev, attempt>>

\* variant: the error of fs::remove_file is ignored
RestoreRemoveFailsIgnored ==
    /\ pc = "RestoreRemove"
    /\ bak.exists
    /\ Return("Ok")
    /\ UNCHANGED <<anchor, bak, cargo, config, content, toml_value, printed,
                   pre, prev, attempt>>

\* migration.rs 160-161: fs::remove_file fails, RestoreFailed
RestoreRemoveFails ==
    /\ pc = "RestoreRemove"
    /\ bak.exists
    /\ Return("RestoreFailed")
    /\ UNCHANGED <<anchor, bak, cargo, config, content, toml_value, printed,
                   pre, prev, attempt>>

NextIO ==
    \/ Next
    \/ BackupFails
    \/ ReadFails
    \/ SerializeFails
    \/ WriteFails
    \/ RestoreCopyFails
    \/ RestoreRemoveFails

\* the project of the tests: create_test_anchor_project
TestDoc ==
    MkDoc(<<TableSection([k \in {"cluster", "wallet"} |->
                IF k = "cluster" THEN Leaf("string", "Localnet") ELSE Wallet])>>,
          <<TableSection([k \in {"localnet"} |-> ProgramIds(k)])>>)

\* the failures do not depend on the document: start from the test project,
\* an unparseable file or no file
InitIO ==
    /\ Init
    /\ anchor \in { File(Text(TestDoc, "orig")), File(BadText), Absent }

\* the program with file operations that may fail
SpecIO == InitIO /\ [][NextIO]_vars

----------------------------------------------------------------------------
(* Properties of the pipeline with failing file operations                 *)

MigrationSteps == {"Validate", "Backup", "Read", "Parse", "Transform", "Persist", "Preview"}

\* the step that follows a step that succeeded
NextStep(step) ==
    CASE step = "Validate"  -> {"Backup"}
      [] step = "Backup"    -> {"Read"}
      [] step = "Read"      -> {"Parse"}
      [] step = "Parse"     -> {"Transform"}
      [] step = "Transform" -> {"Persist", "Preview"}
      [] OTHER              -> {}

(* C11: every run_migration goes Validate, Backup, Read, Parse, Transform, *)
(* then Persist or Preview, each step at most once and never backwards;    *)
(* Anchor.toml is written only in Persist, which is reached only after     *)
(* validation, the backup copy, the read and the parse succeeded; a step   *)
(* that fails ends the call with an error and no later step runs.          *)
PipelineOrder ==
    /\ [][ /\ pc \in MigrationSteps =>
                /\ pc' \in NextStep(pc) \cup {"Done"}
                /\ config' = config
                /\ pc' \in NextStep(pc) => result' = "none"
                /\ (pc' = "Done" /\ pc \notin {"Persist", "Preview"}) => result' # "Ok"
                /\ result' # "none" => pc' = "Done"
           /\ (pc = "Validate" /\ ~validate_anchor_project(anchor, cargo)) => pc' = "Done"
           /\ (pc = "Parse" /\ ~content.valid) => pc' = "Done"
           /\ (~config.restore /\ anchor' # anchor) => pc = "Persist"
           /\ pc = "Done" => (pc' \in {"Validate", "RestoreCheck"} /\ result' = "none")
         ]_vars
    /\ [](pc \in {"Persist", "Preview"} =>
            /\ validate_anchor_project(pre.anchor, pre.cargo)
            /\ bak = File(pre.anchor.text)
            /\ content = pre.anchor.text
            /\ content.valid
            /\ toml_value = Transform(Parse(content), config.network)
            /\ anchor = pre.anchor
            /\ (pc = "Persist") = ~config.dry_run)

\* a call ran the whole pipeline and wrote the file
PipelineWitness ==
    /\ MigrationDone /\ result = "Ok" /\ ~config.dry_run
    /\ anchor # pre.anchor /\ bak = pre.anchor /\ content = pre.anchor.text
    /\ anchor = File(to_string_pretty(toml_value))

(* C12: a run_migration that fails before Persist leaves Anchor.toml       *)
(* byte-identical and returns the error of the step it failed in:          *)
(* NotAnAnchorProject from Validate, BackupFailed from Backup, ReadFailed  *)
(* from Read, TomlParseError from Parse; after a failure in Read or Parse  *)
(* the backup written by this run is on disk.                              *)
EarlyFailureKeepsFile ==
    [][ (pc \in {"Validate", "Backup", "Read", "Parse", "Transform"} /\ pc' = "Done") =>
            /\ anchor' = pre.anchor
            /\ pc # "Transform"
            /\ pc = "Validate" => result' = "NotAnAnchorProject"
            /\ pc = "Backup" => result' = "BackupFailed"
            /\ pc = "Read" => (result' = "ReadFailed" /\ bak' = File(pre.anchor.text))
            /\ pc = "Parse" => (result' = "TomlParseError" /\ bak' = File(pre.anchor.text))
      ]_vars

\* the read failed after the backup of this run replaced an older one
EarlyFailureWitness ==
    /\ MigrationDone /\ result = "ReadFailed"
    /\ pre.bak.exists /\ bak # pre.bak /\ bak = pre.anchor
    /\ anchor = pre.anchor

(* C13: a failed write of Anchor.toml in a non-dry-run migration returns   *)
(* WriteFailed and nothing is rolled back or cleaned up: the backup holds  *)
(* the byte-identical pre-run document, whatever the write left in         *)
(* Anchor.toml, and a following successful restore_backup puts that        *)
(* document back.                                                          *)
WriteFailureRecoverable ==
    /\ [][ (pc = "Persist" /\ pc' = "Done" /\ result' # "Ok") =>
              /\ result' \in {"WriteFailed", "TomlParseError"}
              /\ anchor' # anchor => result' = "WriteFailed"
              /\ result' = "TomlParseError" => anchor' = anchor
              /\ bak' = bak
         ]_vars
    /\ [](( MigrationDone /\ result = "WriteFailed" ) =>
              (~config.dry_run /\ bak = File(pre.anchor.text)))
    /\ [](( RestoreDone /\ result = "Ok" /\ prev.called /\ prev.result = "WriteFailed" ) =>
              (anchor = prev.pre.anchor /\ ~bak.exists))

\* a restore repaired the file that a failed write had left truncated
WriteFailureWitness ==
    /\ RestoreDone /\ result = "Ok" /\ prev.called /\ prev.result = "WriteFailed"
    /\ pre.anchor = File(PartialText)
    /\ anchor = prev.pre.anchor /\ anchor.text.valid

(* C14: in restore_backup with a backup on disk, when the copy succeeds    *)
(* and the deletion fails the call returns RestoreFailed although          *)
(* Anchor.toml already holds the backup's content and the backup is still  *)
(* there; when the copy fails the call returns RestoreFailed and the       *)
(* backup is not deleted.                                                  *)
RestoreFailureAsymmetry ==
    /\ [][ /\ (pc = "RestoreRemove" /\ bak'.exists) =>
                /\ result' = "RestoreFailed" /\ pc' = "Done"
                /\ anchor' = File(pre.bak.text)
                /\ bak' = pre.bak
           /\ (pc = "RestoreCopy" /\ pc' = "Done") =>
                /\ result' = "RestoreFailed"
                /\ bak' = pre.bak /\ bak'.exists
         ]_vars
    /\ [](( RestoreDone /\ result = "RestoreFailed" ) => (bak.exists /\ bak = pre.bak))

\* the restore reported a failure after it had replaced Anchor.toml
RestoreFailureWitness ==
    /\ RestoreDone /\ result = "RestoreFailed"
    /\ anchor = File(bak.text) /\ anchor # pre.anchor
    /\ pre.anchor.exists /\ bak.exists

----------------------------------------------------------------------------
(* Properties of restore mode and of repeated migrations                   *)

(* C15: restore mode runs none of the migration pipeline: restore_backup   *)
(* does not validate the project, so with a backup on disk it returns Ok   *)
(* and (re)creates Anchor.toml from it even when Cargo.toml or Anchor.toml *)
(* is missing; it never returns NotAnAnchorProject and never creates a     *)
(* backup.                                                                 *)
RestoreBypassesPipeline ==
    /\ (RestoreDone /\ pre.bak.exists) =>
          (result = "Ok" /\ anchor = File(pre.bak.text) /\ ~bak.exists)
    /\ (config.restore /\ pc # "Idle") =>
          /\ pc \in {"RestoreCheck", "RestoreCopy", "RestoreRemove", "Done"}
          /\ result # "NotAnAnchorProject"
          /\ bak.exists => bak = pre.bak
          /\ content = NoText /\ toml_value = EmptyDoc /\ printed = NoText

\* Anchor.toml was recreated in a directory that had neither manifest
RestoreBypassWitness ==
    /\ RestoreDone /\ result = "Ok"
    /\ ~pre.anchor.exists /\ ~pre.cargo /\ pre.bak.exists
    /\ anchor = File(pre.bak.text)

(* C16: the cluster rewrite and the programs relocation commute, and each  *)
(* has the same effect whether or not the other applied: the document the  *)
(* pipeline computes (cluster first) equals the one obtained with the      *)
(* relocation first, its provider is what the cluster rewrite alone gives  *)
(* and its programs what the relocation alone gives.                       *)
RewritesCommute ==
    (pc \in {"Persist", "Preview"}) =>
        LET d == Parse(content)
            c == ClusterRewrite(d, config.network)
            r == ProgramsRelocate(d, config.network)
        IN  /\ toml_value = ClusterRewrite(r, config.network)
            /\ DOMAIN toml_value = DOMAIN d
            /\ DOMAIN c = DOMAIN d /\ DOMAIN r = DOMAIN d
            /\ \A k \in DOMAIN d :
                  /\ toml_value[k] = IF k = "provider" THEN c[k]
                                     ELSE IF k = "programs" THEN r[k] ELSE d[k]
                  /\ k # "provider" => c[k] = d[k]
                  /\ k # "programs" => r[k] = d[k]

\* both rewrites applied, for the network whose names differ from the defaults
RewritesCommuteWitness ==
    /\ pc = "Persist" /\ config.network = "MainnetAlpha"
    /\ HasStringCluster(Parse(content)) /\ HasLocalnet(Parse(content))
    /\ toml_value["provider"] # Parse(content)["provider"]
    /\ toml_value["programs"] # Parse(content)["programs"]

\* network.unwrap_or(Network::TestNet)
EffectiveNetwork(network) == IF network = "None" THEN "TestNet" ELSE network

\* the call before this one was a successful non-dry-run migration
AfterMigration == prev.called /\ ~prev.config.restore /\ prev.result = "Ok"
                     /\ ~prev.config.dry_run

(* C17: the transformation is idempotent for a fixed network: a second     *)
(* non-dry-run migration with the same network leaves Anchor.toml as the   *)
(* first one left it.                                                      *)
MigrationIdempotent ==
    (MigrationDone /\ result = "Ok" /\ ~config.dry_run /\ AfterMigration
        /\ EffectiveNetwork(prev.config.network) = EffectiveNetwork(config.network)) =>
        /\ anchor = pre.anchor
        /\ anchor.text.doc = Transform(Parse(prev.pre.anchor.text), config.network)

\* the first run changed cluster and programs, the second changed nothing
IdempotentWitness ==
    /\ MigrationDone /\ result = "Ok" /\ ~config.dry_run /\ AfterMigration
    /\ prev.config.network = "MainnetAlpha" /\ config.network = "MainnetAlpha"
    /\ HasStringCluster(prev.pre.anchor.text.doc) /\ HasLocalnet(prev.pre.anchor.text.doc)
    /\ HasKey(prev.pre.anchor.text.doc, "programs", "mainnet")
    /\ prev.pre.anchor # pre.anchor
    /\ anchor = pre.anchor

(* C18: one backup generation: after a successful non-dry-run migration of *)
(* D, any further run_migration that passes validation (dry runs included) *)
(* leaves the already-migrated file in Anchor.toml.bak, and a restore      *)
(* after a migration that passed validation restores the file that         *)
(* migration started from, here the once-migrated document and not D.      *)
SingleBackupGeneration ==
    /\ (MigrationDone /\ result # "NotAnAnchorProject" /\ AfterMigration) =>
          /\ pre.bak = prev.pre.anchor
          /\ pre.anchor = File(to_string_pretty(
                 Transform(Parse(prev.pre.anchor.text), prev.config.network)))
          /\ bak = pre.anchor
    /\ (RestoreDone /\ prev.called /\ ~prev.config.restore
            /\ prev.result # "NotAnAnchorProject") =>
          /\ result = "Ok"
          /\ anchor = prev.pre.anchor
          /\ (prev.pre.bak.exists /\ prev.pre.bak # prev.pre.anchor) =>
                anchor # prev.pre.bak

\* migrate D, dry-run again, restore: the file is the migrated one, D is lost
SingleBackupWitness ==
    /\ RestoreDone /\ result = "Ok"
    /\ prev.called /\ ~prev.config.restore /\ prev.config.dry_run /\ prev.result = "Ok"
    /\ prev.pre.bak.exists /\ prev.pre.bak.text.valid /\ prev.pre.bak.text.fmt = "orig"
    /\ prev.pre.anchor = File(to_string_pretty(
           Transform(Parse(prev.pre.bak.text), "MainnetAlpha")))
    /\ HasLocalnet(prev.pre.bak.text.doc)
    /\ anchor = prev.pre.anchor /\ anchor # prev.pre.bak

(* C19: only the key localnet is relocated: when a document migrated to    *)
(* one network is migrated again to the other, provider.cluster becomes    *)
(* the second network's endpoint while programs stays as the first         *)
(* migration left it, with the entry under the first network's section     *)
(* name and no key added or removed.                                       *)
RelocatesOnlyLocalnet ==
    (MigrationDone /\ result = "Ok" /\ ~config.dry_run /\ AfterMigration
        /\ EffectiveNetwork(prev.config.network) # EffectiveNetwork(config.network)) =>
        LET first == prev.pre.anchor.text.doc
            name1 == get_programs_section_name(EffectiveNetwork(prev.config.network))
        IN  /\ HasStringCluster(first) =>
                  anchor.text.doc["provider"].entries["cluster"] =
                      Leaf("string", get_network_rpc_url(EffectiveNetwork(config.network)))
            /\ ("programs" \in DOMAIN anchor.text.doc) = ("programs" \in DOMAIN DocBefore)
            /\ "programs" \in DOMAIN DocBefore =>
                  anchor.text.doc["programs"] = DocBefore["programs"]
            /\ HasLocalnet(first) =>
                  /\ HasKey(anchor.text.doc, "programs", name1)
                  /\ anchor.text.doc["programs"].entries[name1] =
                        first["programs"].entries["localnet"]
                  /\ ~HasLocalnet(anchor.text.doc)

\* testnet then mainnet-alpha: the cluster moved on, the programs stayed under testnet
RelocatesOnlyLocalnetWitness ==
    /\ MigrationDone /\ result = "Ok" /\ ~config.dry_run /\ AfterMigration
    /\ prev.config.network = "TestNet" /\ config.network = "MainnetAlpha"
    /\ HasStringCluster(prev.pre.anchor.text.doc) /\ HasLocalnet(prev.pre.anchor.text.doc)
    /\ ~HasKey(prev.pre.anchor.text.doc, "programs", "mainnet")
    /\ anchor.text.doc["provider"].entries["cluster"].v = MainnetUrl
    /\ HasKey(anchor.text.doc, "programs", "testnet")
    /\ ~HasKey(anchor.text.doc, "programs", "mainnet")

====
